---- MODULE Spec2Model ----
(***************************************************************************)
(* A model of hedra's planar-geometry code (src/src/main.rs): the Vect and *)
(* Point algebra, the similarity Matrix, the Polygon view with its         *)
(* PointIter traversal, and the three canonicalisation operations          *)
(* flip_rotate, flip_reflect and reorient.                                 *)
(*                                                                         *)
(* Numbers.  An f64 is modelled as an exact rational [num, den] in lowest  *)
(* terms with den > 0.  On the inputs drawn here (small integers, norms    *)
(* that are integers) every f64 operation of the code is exact or differs  *)
(* from the rational by rounding only.  sqrt of a rational that is not a   *)
(* perfect square has no rational value: it is the value Inexact, which    *)
(* every arithmetic operation propagates.                                  *)
(*                                                                         *)
(* Panics.  A Rust panic is the value Panic(kind); a function that can     *)
(* panic returns either its value or that record, and its callers pass it  *)
(* on in the order the code evaluates.                                     *)
(***************************************************************************)
EXTENDS Integers, Sequences, FiniteSets, TLC

VARIABLES
    poly,      \* the Polygon the driver holds, or the panic that ended the run
    arg,       \* the Polygon the last operation was called on
    op,        \* the last Polygon operation
    iter,      \* the PointIter being read, Idle or Exhausted
    yielded,   \* the points the PointIter has yielded so far
    steps,     \* number of Polygon operations done
    va, vb,    \* Vect operands
    vres,      \* result of the last Vect operation
    vop,       \* the last Vect operation
    ma, mb,    \* Matrix operands
    mp,        \* Point operand
    mres,      \* result of the last Matrix operation
    mop        \* the last Matrix operation

vars == <<poly, arg, op, iter, yielded, steps,
          va, vb, vres, vop, ma, mb, mp, mres, mop>>
polyVars == <<poly, arg, op, iter, yielded, steps>>
vectVars == <<va, vb, vres, vop>>
matVars == <<ma, mb, mp, mres, mop>>

----------------------------------------------------------------------------
(* Bounds *)

MaxLen == 4        \* longest point sequence given to Polygon::new
MaxDelta == 2      \* align's change ranges over -MaxDelta..MaxDelta
MaxOps == 2        \* Polygon operations per run
MaxV == 2          \* Vect operand components range over -MaxV..MaxV
MaxM == 1          \* Matrix constructor arguments range over -MaxM..MaxM

----------------------------------------------------------------------------
(* Panics and Option *)

Panic(kind) == [panic |-> kind]
IsPanic(r) == "panic" \in DOMAIN r

UnitZero == "unit undefined for the zero vector"
UnwrapNone == "called Option::unwrap() on a None value"
IndexOutOfBounds == "index out of bounds"
SplitAtMid == "mid > len"

Some(v) == [some |-> v]
None == [none |-> TRUE]
IsSome(o) == "some" \in DOMAIN o

----------------------------------------------------------------------------
(* f64 arithmetic as exact rationals *)

RECURSIVE Gcd(_, _)
Gcd(a, b) == IF b = 0 THEN a ELSE Gcd(b, a % b)

Abs(n) == IF n < 0 THEN -n ELSE n

Inexact == [inexact |-> TRUE]
IsInexact(r) == "inexact" \in DOMAIN r

Frac(n, d) ==
    LET s == IF d < 0 THEN -1 ELSE 1
        g == Gcd(Abs(n), Abs(d))
    IN  [num |-> (s * n) \div g, den |-> (s * d) \div g]

F(n) == [num |-> n, den |-> 1]

f64_add(a, b) ==
    IF IsInexact(a) \/ IsInexact(b) THEN Inexact
    ELSE Frac(a.num * b.den + b.num * a.den, a.den * b.den)

f64_sub(a, b) ==
    IF IsInexact(a) \/ IsInexact(b) THEN Inexact
    ELSE Frac(a.num * b.den - b.num * a.den, a.den * b.den)

f64_mul(a, b) ==
    IF IsInexact(a) \/ IsInexact(b) THEN Inexact
    ELSE Frac(a.num * b.num, a.den * b.den)

\* Only ever called with a non-zero divisor: unit() rejects the zero vector.
f64_div(a, b) ==
    IF IsInexact(a) \/ IsInexact(b) THEN Inexact
    ELSE Frac(a.num * b.den, a.den * b.num)

f64_neg(a) == IF IsInexact(a) THEN Inexact ELSE [num |-> -a.num, den |-> a.den]

ISqrt(n) == CHOOSE r \in 0..n : r * r <= n /\ n < (r + 1) * (r + 1)

\* sqrt of a non-negative rational: its root when that is rational.
f64_sqrt(a) ==
    IF IsInexact(a) THEN Inexact
    ELSE LET rn == ISqrt(a.num)
             rd == ISqrt(a.den)
         IN  IF rn * rn = a.num /\ rd * rd = a.den
             THEN [num |-> rn, den |-> rd]
             ELSE Inexact

----------------------------------------------------------------------------
(* Vect *)

Vect(x, y) == [x |-> x, y |-> y]

is_zero(self) == self.x = F(0) /\ self.y = F(0)

dot(self, rhs) == f64_add(f64_mul(self.x, rhs.x), f64_mul(self.y, rhs.y))

norm(self) == f64_sqrt(dot(self, self))

Vect_neg(self) == Vect(f64_neg(self.x), f64_neg(self.y))

f64_mul_Vect(self, rhs) == Vect(f64_mul(self, rhs.x), f64_mul(self, rhs.y))

Vect_mul(self, rhs) ==
    Vect(f64_sub(f64_mul(self.x, rhs.x), f64_mul(self.y, rhs.y)),
         f64_add(f64_mul(self.x, rhs.y), f64_mul(self.y, rhs.y)))

Vect_div(self, rhs) == Vect(f64_div(self.x, rhs), f64_div(self.y, rhs))

Vect_add(self, rhs) == Vect(f64_add(self.x, rhs.x), f64_add(self.y, rhs.y))

Vect_sub(self, rhs) == Vect(f64_sub(self.x, rhs.x), f64_sub(self.y, rhs.y))

unit(self) ==
    IF is_zero(self) THEN Panic(UnitZero)
    ELSE Vect_div(self, norm(self))

onto(self, other) ==
    LET u == unit(other)
    IN  IF IsPanic(u) THEN u
        ELSE f64_mul_Vect(dot(self, u), other)

----------------------------------------------------------------------------
(* Point *)

Point(x, y) == [x |-> x, y |-> y]

Point_default == Point(F(0), F(0))

Point_add_Vect(self, rhs) == Point(f64_add(self.x, rhs.x), f64_add(self.y, rhs.y))

Point_sub(self, rhs) == Vect(f64_sub(self.x, rhs.x), f64_sub(self.y, rhs.y))

Point_sub_Vect(self, rhs) == Point(f64_sub(self.x, rhs.x), f64_sub(self.y, rhs.y))

----------------------------------------------------------------------------
(* Matrix *)

Matrix(coords) == [coords |-> coords]

\* self.coords[i] on the six-element array: a bounds-checked, zero-based index.
coords_index(self, i) ==
    IF i < Len(self.coords) THEN self.coords[i + 1]
    ELSE Panic(IndexOutOfBounds)

identity == Matrix(<<F(1), F(0), F(0), F(1), F(0), F(0)>>)

translate(v) == Matrix(<<F(1), F(0), F(0), F(1), v.x, v.y>>)

rotate_scale(v) == Matrix(<<v.x, v.y, f64_neg(v.y), v.x, F(0), F(0)>>)

v11(self) == coords_index(self, 0)
v21(self) == coords_index(self, 1)
v12(self) == coords_index(self, 2)
v22(self) == coords_index(self, 3)
v13(self) == coords_index(self, 4)
v23(self) == coords_index(self, 6)

\* Matrix * Matrix.  The lets are evaluated in the code's order; the first
\* five read in-range coefficients, v23 is the first that can panic.
Matrix_mul(self, rhs) ==
    LET n11 == f64_add(f64_mul(v11(self), v11(rhs)), f64_mul(v21(self), v12(rhs)))
        n21 == f64_add(f64_mul(v11(self), v21(rhs)), f64_mul(v21(self), v22(rhs)))
        n12 == f64_add(f64_mul(v12(self), v11(rhs)), f64_mul(v22(self), v12(rhs)))
        n22 == f64_add(f64_mul(v12(self), v21(rhs)), f64_mul(v22(self), v22(rhs)))
        n13 == f64_add(v13(self), v13(rhs))
        s23 == v23(self)
        r23 == v23(rhs)
    IN  IF IsPanic(s23) THEN s23
        ELSE IF IsPanic(r23) THEN r23
        ELSE Matrix(<<n11, n21, n12, n22, n13, f64_add(s23, r23)>>)

\* &Matrix * Point
Matrix_mul_Point(self, rhs) ==
    LET x == f64_add(f64_add(f64_mul(v11(self), rhs.x), f64_mul(v12(self), rhs.y)),
                     v13(self))
        s23 == v23(self)
    IN  IF IsPanic(s23) THEN s23
        ELSE Point(x, f64_add(f64_add(f64_mul(v21(self), rhs.x),
                                      f64_mul(v22(self), rhs.y)), s23))

----------------------------------------------------------------------------
(* PointIter *)

PointIter(first, second) == [first |-> first, second |-> second]

\* Iterator::next: the item yielded and the iterator afterwards.
next(self) ==
    IF self.first # <<>>
    THEN [item |-> Some(Head(self.first)),
          iter |-> PointIter(Tail(self.first), self.second)]
    ELSE IF self.second # <<>>
    THEN [item |-> Some(Head(self.second)),
          iter |-> PointIter(self.first, Tail(self.second))]
    ELSE [item |-> None, iter |-> self]

unwrap_or_default(o) == IF IsSome(o) THEN o.some ELSE Point_default

\* Option::unwrap
unwrap(o) == IF IsSome(o) THEN o.some ELSE Panic(UnwrapNone)

\* `for p in points`: every item the iterator still yields, in order.
RECURSIVE for_in(_)
for_in(it) ==
    LET r == next(it)
    IN  IF IsSome(r.item) THEN <<r.item.some>> \o for_in(r.iter) ELSE <<>>

----------------------------------------------------------------------------
(* Polygon *)

\* orientation is a usize.  It is held here as the isize with the same bits
\* (what `self.orientation as isize` reads): a value o >= 0 is the usize o, a
\* value o < 0 is the usize 2^BITS + o, larger than the length of any Vec.
Polygon(orientation, points) == [orientation |-> orientation, points |-> points]

usize_lt(o, n) == 0 <= o /\ o < n
usize_le(o, n) == 0 <= o /\ o <= n

new(points) == Polygon(0, points)

len(self) == Len(self.points)

\* (self.orientation as isize + change) as usize
align(self, change) == Polygon(self.orientation + change, self.points)

\* slice::split_at(mid) panics when mid > len.
split_at(s, mid) ==
    IF usize_le(mid, Len(s))
    THEN [head |-> SubSeq(s, 1, mid), tail |-> SubSeq(s, mid + 1, Len(s))]
    ELSE Panic(SplitAtMid)

points(self) ==
    LET halves == split_at(self.points, self.orientation)
    IN  IF IsPanic(halves) THEN halves
        ELSE PointIter(halves.head, halves.tail)

flip_rotate(self) ==
    LET it == points(self)
        n0 == next(it)
        p0 == unwrap(n0.item)
        n1 == next(n0.iter)
        p1 == unwrap(n1.item)
        rest == for_in(n1.iter)
    IN  IF IsPanic(it) THEN it
        ELSE IF IsPanic(p0) THEN p0
        ELSE IF IsPanic(p1) THEN p1
        ELSE new(<<p0, p1>> \o
                 [i \in 1..Len(rest) |->
                    Point_sub_Vect(p1, Point_sub(rest[i], p0))])

\* The loop body of flip_reflect; onto() panics on a zero axis.
reflect_point(p, p0, axis) ==
    LET v == Point_sub(p, p0)
        o == onto(v, axis)
    IN  IF IsPanic(o) THEN o
        ELSE Point_sub_Vect(p0, f64_mul_Vect(F(2), Vect_sub(v, o)))

flip_reflect(self) ==
    LET it == points(self)
        n0 == next(it)
        p0 == unwrap(n0.item)
        n1 == next(n0.iter)
        p1 == unwrap(n1.item)
        axis == Point_sub(p1, p0)
        rest == for_in(n1.iter)
        tail == [i \in 1..Len(rest) |-> reflect_point(rest[i], p0, axis)]
    IN  IF IsPanic(it) THEN it
        ELSE IF IsPanic(p0) THEN p0
        ELSE IF IsPanic(p1) THEN p1
        ELSE IF \E i \in 1..Len(rest) : IsPanic(tail[i])
        THEN tail[CHOOSE i \in 1..Len(rest) :
                    IsPanic(tail[i]) /\ \A j \in 1..(i - 1) : ~IsPanic(tail[j])]
        ELSE new(<<p0, p1>> \o tail)

reorient(self) ==
    LET it == points(self)
        n0 == next(it)
        p0 == unwrap(n0.item)
        n1 == next(n0.iter)
        p1 == unwrap(n1.item)
        n2 == next(n1.iter)
        p2 == unwrap(n2.item)
        rest == for_in(n2.iter)
        t1 == translate(Point_sub(Point_default, p1))
        u == unit(Vect_mul(Vect_neg(Point_sub(p1, p0)), Point_sub(p2, p1)))
        r == rotate_scale(u)
        t0 == translate(Point_sub(p0, Point_default))
        t0r == Matrix_mul(t0, r)
        t == Matrix_mul(t0r, t1)
        all == <<p0, p1, p2>> \o rest
        buf == [i \in 1..Len(all) |-> Matrix_mul_Point(t, all[i])]
    IN  IF IsPanic(it) THEN it
        ELSE IF IsPanic(p0) THEN p0
        ELSE IF IsPanic(p1) THEN p1
        ELSE IF IsPanic(p2) THEN p2
        ELSE IF IsPanic(u) THEN u
        ELSE IF IsPanic(t0r) THEN t0r
        ELSE IF IsPanic(t) THEN t
        ELSE IF IsPanic(buf[1]) THEN buf[1]
        ELSE new(buf)

----------------------------------------------------------------------------
(* The driver of the Polygon operations: it builds a Polygon over a point   *)
(* sequence, calls align and the canonicalisation operations on the Polygon *)
(* it holds, and finally reads the points back through points() and         *)
(* PointIter::next.  A panic ends the run.                                  *)

PointPool == {Point(F(x), F(y)) : x \in 0..1, y \in 0..1}

RECURSIVE SeqsUpTo(_, _)
SeqsUpTo(S, n) ==
    IF n = 0 THEN {<<>>}
    ELSE LET shorter == SeqsUpTo(S, n - 1)
         IN  shorter \cup {Append(q, e) : q \in {r \in shorter : Len(r) = n - 1}, e \in S}

PointSeqs == SeqsUpTo(PointPool, MaxLen)

Deltas == (-MaxDelta)..MaxDelta

Idle == [idle |-> TRUE]
NoArg == [none |-> TRUE]
IsIter(it) == "first" \in DOMAIN it

VectIdle == /\ va = Vect(F(0), F(0))
            /\ vb = Vect(F(0), F(0))
            /\ vres = NoArg
            /\ vop = "none"

MatIdle == /\ ma = identity
           /\ mb = identity
           /\ mp = Point_default
           /\ mres = NoArg
           /\ mop = "none"

Init ==
    /\ \E pts \in PointSeqs : poly = new(pts)
    /\ arg = NoArg
    /\ op = "new"
    /\ iter = Idle
    /\ yielded = <<>>
    /\ steps = 0
    /\ VectIdle
    /\ MatIdle

CanCall == ~IsPanic(poly) /\ iter = Idle /\ steps < MaxOps

Call(name, result) ==
    /\ CanCall
    /\ poly' = result
    /\ arg' = poly
    /\ op' = name
    /\ steps' = steps + 1
    /\ UNCHANGED <<iter, yielded, vectVars, matVars>>

Align == \E change \in Deltas : Call("align", align(poly, change))

FlipRotate == Call("flip_rotate", flip_rotate(poly))

FlipReflect == Call("flip_reflect", flip_reflect(poly))

Reorient == Call("reorient", reorient(poly))

\* let it = poly.points(): split_at may panic.
Points ==
    /\ ~IsPanic(poly)
    /\ iter = Idle
    /\ LET it == points(poly)
       IN  IF IsPanic(it)
           THEN poly' = it /\ iter' = iter
           ELSE poly' = poly /\ iter' = it
    /\ arg' = poly
    /\ op' = "points"
    /\ yielded' = <<>>
    /\ UNCHANGED <<steps, vectVars, matVars>>

\* it.next(), called until it answers None.
IterNext ==
    /\ IsIter(iter)
    /\ IF yielded = <<>> THEN TRUE ELSE IsSome(yielded[Len(yielded)])
    /\ LET r == next(iter)
       IN  /\ yielded' = Append(yielded, r.item)
           /\ iter' = r.iter
    /\ UNCHANGED <<poly, arg, op, steps, vectVars, matVars>>

Next == Align \/ FlipRotate \/ FlipReflect \/ Reorient \/ Points \/ IterNext

Spec == Init /\ [][Next]_vars

----------------------------------------------------------------------------
(* The Vect algebra on its own: operands drawn from a grid, one operation   *)
(* applied at a time.                                                       *)

VectPool == {Vect(F(x), F(y)) : x \in (-MaxV)..MaxV, y \in (-MaxV)..MaxV}

PolyIdle == /\ poly = new(<<>>)
            /\ arg = NoArg
            /\ op = "new"
            /\ iter = Idle
            /\ yielded = <<>>
            /\ steps = 0

InitVect ==
    /\ va \in VectPool
    /\ vb \in VectPool
    /\ vres = NoArg
    /\ vop = "none"
    /\ PolyIdle
    /\ MatIdle

VectCall(name, result) ==
    /\ vop = "none"
    /\ vres' = result
    /\ vop' = name
    /\ UNCHANGED <<va, vb, polyVars, matVars>>

VMul == VectCall("mul", Vect_mul(va, vb))

VOnto == VectCall("onto", onto(va, vb))

VUnit == VectCall("unit", unit(va))

VNorm == VectCall("norm", norm(va))

NextVect == VMul \/ VOnto \/ VUnit \/ VNorm

SpecVect == InitVect /\ [][NextVect]_vars

----------------------------------------------------------------------------
(* The Matrix algebra on its own: two matrices built by the constructors,   *)
(* composed and applied to a point.                                         *)

MatArgs == {Vect(F(x), F(y)) : x \in (-MaxM)..MaxM, y \in (-MaxM)..MaxM}

Built == {identity} \cup {translate(v) : v \in MatArgs}
                    \cup {rotate_scale(v) : v \in MatArgs}

InitMat ==
    /\ ma \in Built
    /\ mb \in Built
    /\ mp \in PointPool
    /\ mres = NoArg
    /\ mop = "none"
    /\ PolyIdle
    /\ VectIdle

\* A * B, kept as the new A when it is a Matrix ("and their products").
MCompose ==
    /\ mop \in {"none", "mul"}
    /\ ~IsPanic(mres)
    /\ LET t == Matrix_mul(ma, mb)
       IN  /\ mres' = t
           /\ ma' = IF IsPanic(t) THEN ma ELSE t
    /\ mop' = "mul"
    /\ UNCHANGED <<mb, mp, polyVars, vectVars>>

\* &A * p
MApply ==
    /\ mop = "none"
    /\ mres' = Matrix_mul_Point(ma, mp)
    /\ mop' = "apply"
    /\ UNCHANGED <<ma, mb, mp, polyVars, vectVars>>

\* &(A * B) * p
MComposeApply ==
    /\ mop = "none"
    /\ LET t == Matrix_mul(ma, mb)
       IN  mres' = IF IsPanic(t) THEN t ELSE Matrix_mul_Point(t, mp)
    /\ mop' = "mul_apply"
    /\ UNCHANGED <<ma, mb, mp, polyVars, vectVars>>

NextMat == MCompose \/ MApply \/ MComposeApply

SpecMat == InitMat /\ [][NextMat]_vars

----------------------------------------------------------------------------
(* Claims *)

\* The traversal begun by Points has answered None.
TraversalDone ==
    /\ op = "points"
    /\ IsIter(iter)
    /\ yielded # <<>>
    /\ ~IsSome(yielded[Len(yielded)])

\* Logical vertex k of P: the stored point at index (orientation + k) mod len.
vertex(P, k) == P.points[((P.orientation + k) % len(P)) + 1]

\* C1: for a Polygon with n >= 1 vertices and orientation o, 0 <= o < n, a
\* completed points() traversal has yielded exactly n points, the k-th being
\* the stored point at index (o + k) mod n.
C1_PointsStartAtOrientation ==
    (/\ TraversalDone
     /\ len(arg) >= 1
     /\ usize_lt(arg.orientation, len(arg)))
    => /\ Len(yielded) = len(arg) + 1
       /\ \A k \in 0..(len(arg) - 1) : yielded[k + 1] = Some(vertex(arg, k))

\* C2: every Polygon built by new over a non-empty point sequence and any
\* sequence of align, flip_rotate, flip_reflect and reorient calls has
\* orientation < len().
C2_OrientationBelowLen ==
    (~IsPanic(poly) /\ len(poly) >= 1) => usize_lt(poly.orientation, len(poly))

\* A rigid motion of the plane: q quarter turns about the origin, then a shift.
QuarterTurns(q, p) ==
    CASE q = 0 -> p
      [] q = 1 -> Point(f64_neg(p.y), p.x)
      [] q = 2 -> Point(f64_neg(p.x), f64_neg(p.y))
      [] q = 3 -> Point(p.y, f64_neg(p.x))

Rigid(q, t, p) == Point_add_Vect(QuarterTurns(q, p), t)

Shifts == {Vect(F(x), F(y)) : x \in -1..1, y \in -1..1}

\* C3: reorient is frame-invariant: for a Polygon P (orientation 0, at least
\* 3 vertices, the first three pairwise distinct) and its image P2 under any
\* rigid motion, reorient(P) and reorient(P2) both return a Polygon and the
\* two have the same vertices.
C3_ReorientFrameInvariant ==
    (/\ op = "reorient"
     /\ arg.orientation = 0
     /\ len(arg) >= 3
     /\ arg.points[1] # arg.points[2]
     /\ arg.points[2] # arg.points[3]
     /\ arg.points[1] # arg.points[3])
    => \A q \in 0..3 : \A t \in Shifts :
          LET image == [i \in 1..len(arg) |-> Rigid(q, t, arg.points[i])]
              other == reorient(new(image))
          IN  /\ ~IsPanic(poly)
              /\ ~IsPanic(other)
              /\ poly.points = other.points

\* C4: flip_reflect is an involution: for a Polygon (orientation 0) with at
\* least 2 vertices and p0 # p1 (first edge of rational length),
\* flip_reflect of its flip_reflect has the original vertex at every index.
C4_FlipReflectInvolution ==
    (/\ op = "flip_reflect"
     /\ arg.orientation = 0
     /\ len(arg) >= 2
     /\ arg.points[1] # arg.points[2]
     /\ ~IsInexact(norm(Point_sub(arg.points[2], arg.points[1]))))
    => /\ ~IsPanic(poly)
       /\ LET back == flip_reflect(poly)
          IN  ~IsPanic(back) /\ back.points = arg.points

\* C5: flip_rotate is an involution: for a Polygon with at least 2 vertices
\* (orientation in range), flip_rotate leaves vertices 0 and 1 unchanged and
\* flip_rotate of the result returns every vertex beyond index 1 to its
\* original coordinates.
C5_FlipRotateInvolution ==
    (/\ op = "flip_rotate"
     /\ len(arg) >= 2
     /\ usize_lt(arg.orientation, len(arg)))
    => /\ ~IsPanic(poly)
       /\ vertex(poly, 0) = vertex(arg, 0)
       /\ vertex(poly, 1) = vertex(arg, 1)
       /\ LET back == flip_rotate(poly)
          IN  /\ ~IsPanic(back)
              /\ \A k \in 2..(len(arg) - 1) : vertex(back, k) = vertex(arg, k)

UnitSquare == <<Point(F(0), F(0)), Point(F(1), F(0)),
                Point(F(1), F(1)), Point(F(0), F(1))>>

\* C6: reorient of the unit square (0,0),(1,0),(1,1),(0,1) at orientation 0
\* returns the 4-vertex Polygon (0,0),(1,0),(1,1),(0,1).
C6_ReorientUnitSquare ==
    (op = "reorient" /\ arg = new(UnitSquare)) => poly = new(UnitSquare)

\* C7: flip_rotate and flip_reflect called on a Polygon of 0 or 1 vertices,
\* and reorient called on one of fewer than 3, panic and return no Polygon;
\* when points() itself succeeds the panic is the unwrap of a missing vertex.
C7_MinimumVertexCounts ==
    (\/ op \in {"flip_rotate", "flip_reflect"} /\ len(arg) < 2
     \/ op = "reorient" /\ len(arg) < 3)
    => /\ IsPanic(poly)
       /\ usize_le(arg.orientation, len(arg)) => poly = Panic(UnwrapNone)

\* C7's case: reorient has been called on a 2-vertex Polygon and has panicked
\* for want of a third vertex.
C7_Witness ==
    /\ op = "reorient"
    /\ len(arg) = 2
    /\ poly = Panic(UnwrapNone)

\* C8: onto(k*b, b) = k*b for every non-zero b (of rational length) and
\* every k # 0.
C8_OntoIdempotentOnParallel ==
    (/\ vop = "onto"
     /\ ~is_zero(vb)
     /\ ~IsInexact(norm(vb))
     /\ \E k \in ((-MaxV)..MaxV) \ {0} : va = f64_mul_Vect(F(k), vb))
    => vres = va

\* C9: applying the product A*B to a point p gives the point that applying
\* B to p and then A to the result gives.
C9_ProductAppliesRightThenLeft ==
    (mop = "mul_apply")
    => LET inner == Matrix_mul_Point(mb, mp)
       IN  /\ ~IsPanic(mres)
           /\ ~IsPanic(inner)
           /\ mres = Matrix_mul_Point(ma, inner)

\* C10: (x1,y1) * (x2,y2) = (x1*x2 - y1*y2, x1*y2 + x2*y1).
C10_VectMulIsComplexMul ==
    (vop = "mul")
    => vres = Vect(f64_sub(f64_mul(va.x, vb.x), f64_mul(va.y, vb.y)),
                   f64_add(f64_mul(va.x, vb.y), f64_mul(vb.x, va.y)))

====
